---- MODULE Spec2Model ----
(***************************************************************************)
(* Model of the tic-tac-toe WebSocket server (server index.ts, the         *)
(* version with spectators): one shared 3x3 board, the turn pointer, the   *)
(* socket -> player map, and the messages each handler sends.              *)
(***************************************************************************)
EXTENDS Integers, Sequences, FiniteSets, TLC

\* ------------------------------------------------------------------ bounds
\* Number of distinct client sockets that can be connected at once.
NumSockets == 3
\* Number of marks the board may carry before further moves are cut off in
\* Spec (the code has no such limit; SpecGame does not apply it).
MaxMarks == 2

Sockets == 1..NumSockets

\* ------------------------------------------------------------ common types
\* type Position = 0 | 1 | 2
Position == 0..2
\* type Player = 'X' | 'O'
Player == {"X", "O"}
\* JavaScript null / undefined, as values of the model
null == "null"
undefined == "undefined"
\* type Cell = Player | null
Cell == Player \cup {null}

\* ------------------------------------------------------------------- state
VARIABLES
    board,              \* const board: Board            (board[y][x])
    next,               \* let next: Player
    playerAssignments,  \* Map<WebSocket, Player | null>, a function on its keys
    clients,            \* webSocketServer.clients
    sent,               \* per socket: the messages the last handler sent to it
    ev,                 \* the event the last handler ran for
    firstSent,          \* per socket: the type of the first message its
                        \* connection was sent ("none" before any)
    throwing,           \* the live sockets whose send() throws
    crashed,            \* an exception has left a listener uncaught
    view,               \* per socket: the last update its client was sent
                        \* (the board, next and winner the client shows)
    since               \* the sockets connected ever since the last move
                        \* or reset that was carried out

vars == <<board, next, playerAssignments, clients, sent, ev,
          firstSent, throwing, crashed, view, since>>

\* The board literal of the module: every cell null.
EmptyBoard == [y \in Position |-> [x \in Position |-> null]]

\* ------------------------------------------------------------- checkWinner
\* The eight lines in the order the array literal lists them:
\* ...board (rows 0,1,2), the three columns, the two diagonals.
Lines(b) ==
    << <<b[0][0], b[0][1], b[0][2]>>,
       <<b[1][0], b[1][1], b[1][2]>>,
       <<b[2][0], b[2][1], b[2][2]>>,
       <<b[0][0], b[1][0], b[2][0]>>,
       <<b[0][1], b[1][1], b[2][1]>>,
       <<b[0][2], b[1][2], b[2][2]>>,
       <<b[0][0], b[1][1], b[2][2]>>,
       <<b[0][2], b[1][1], b[2][0]>> >>

\* line[0] && line[0] === line[1] && line[1] === line[2]
LineWon(line) == line[1] # null /\ line[1] = line[2] /\ line[2] = line[3]

\* board.every((row) => row.every((cell) => cell !== null))
isFull(b) == \A y \in Position : \A x \in Position : b[y][x] # null

\* for (const line of lines) ...: the loop from index i on.
RECURSIVE ScanLines(_, _)
ScanLines(ls, i) ==
    IF i > Len(ls) THEN undefined
    ELSE IF LineWon(ls[i]) THEN ls[i][1]
    ELSE ScanLines(ls, i + 1)

\* Variant of checkWinner: the full-board test comes first.
checkWinnerDrawFirst(b) ==
    LET w == ScanLines(Lines(b), 1)
    IN  IF isFull(b) THEN "draw"
        ELSE IF w # undefined THEN w
        ELSE null

checkWinner(b) ==
    LET w == ScanLines(Lines(b), 1)
    IN  IF w # undefined THEN w
        ELSE IF isFull(b) THEN "draw"
        ELSE null

\* --------------------------------------------------------------- messages
AssignMessage(p) == [type |-> "assign", player |-> p]
UpdateMessage(b, n, w) == [type |-> "update", board |-> b, next |-> n, winner |-> w]

\* What a client may send: a move for any cell, a reset, or some other type.
MoveMessage(x, y) == [type |-> "move", x |-> x, y |-> y]
ResetMessage == [type |-> "reset", x |-> -1, y |-> -1]
OtherMessage == [type |-> "chat", x |-> -1, y |-> -1]
ClientMessages ==
    {MoveMessage(x, y) : x \in Position, y \in Position}
        \cup {ResetMessage, OtherMessage}

\* The same with moves whose x or y is one off the board on either side.
WildPosition == -1..3
WildMessages ==
    {MoveMessage(x, y) : x \in WildPosition, y \in WildPosition}
        \cup {ResetMessage, OtherMessage}

NoSends == [s \in Sockets |-> << >>]

\* The for..of loop over webSocketServer.clients (a Set: insertion order,
\* which is the order of the socket numbers when sockets connect in that
\* order) gets as far as s: no earlier client's send() has thrown.
Reached(s) == \A t \in clients : t < s => t \notin throwing

\* Variant of broadcast: only the sockets holding a role are sent to.
broadcastToPlayers(message) ==
    [s \in Sockets |->
        IF /\ s \in clients /\ s \notin throwing /\ Reached(s)
           /\ s \in DOMAIN playerAssignments /\ playerAssignments[s] # null
        THEN <<message>> ELSE << >>]

\* broadcast(message): one send per member of webSocketServer.clients, up to
\* the first one whose send() throws.
broadcast(message) ==
    [s \in Sockets |->
        IF s \in clients /\ s \notin throwing /\ Reached(s)
        THEN <<message>> ELSE << >>]

\* broadcast is left by an exception: there is no try/catch around send().
broadcastThrows == clients \cap throwing # {}

\* ----------------------------------------------------------------- events
\* type: "start", "connection", "close", or the type of the message handled.
Event(t, ws) == [type |-> t, ws |-> ws]

\* [...playerAssignments.values()].includes(p)
Includes(p) == \E s \in DOMAIN playerAssignments : playerAssignments[s] = p

\* playerAssignments.get(ws)
Get(ws) == IF ws \in DOMAIN playerAssignments THEN playerAssignments[ws] ELSE undefined

\* Variants of Assigned with a slip in them.
\* players.size === 0 ? 'X' : 'O'
AssignedBySize == IF DOMAIN playerAssignments = {} THEN "X" ELSE "O"
\* the two tests in the other order
AssignedOFirst == IF ~Includes("O") THEN "O" ELSE IF ~Includes("X") THEN "X" ELSE null

\* The role the connection handler computes for a new socket.
Assigned == IF ~Includes("X") THEN "X" ELSE IF ~Includes("O") THEN "O" ELSE null

\* playerAssignments.set(ws, p)
MapSet(ws, p) ==
    [s \in DOMAIN playerAssignments \cup {ws} |->
        IF s = ws THEN p ELSE playerAssignments[s]]

\* Variant of MapDelete: the entry is kept.
MapDeleteKeeps(ws) == playerAssignments

\* playerAssignments.delete(ws)
MapDelete(ws) == [s \in DOMAIN playerAssignments \ {ws} |-> playerAssignments[s]]

\* Variant of Flip: next = 'O'
FlipStuck(p) == "O"

\* next === 'X' ? 'O' : 'X'
Flip(p) == IF p = "X" THEN "O" ELSE "X"

\* board[y][x] = p, for a row y the board has: an x the row lacks is added
\* to it.
Place(b, x, y, p) ==
    [b EXCEPT ![y] = [i \in DOMAIN b[y] \cup {x} |-> IF i = x THEN p ELSE b[y][i]]]

\* board[y][x], for a row y the board has: undefined for an x the row lacks.
CellAt(b, x, y) == IF x \in DOMAIN b[y] THEN b[y][x] ELSE undefined

Marks(b) == Cardinality({c \in Position \X Position : b[c[1]][c[2]] # null})

\* firstSent after a handler whose send calls were out.
FirstSentAfter(out) ==
    [s \in Sockets |->
        IF firstSent[s] = "none" /\ out[s] # << >> THEN out[s][1].type
        ELSE firstSent[s]]

\* Variants of OnConnection with a slip in them.
\* the current state is sent to the new socket, before its assign
OnConnectionUpdateFirst(ws) ==
    /\ ~crashed
    /\ ws \notin clients
    /\ clients' = clients \cup {ws}
    /\ playerAssignments' = MapSet(ws, Assigned)
    /\ sent' = [NoSends EXCEPT ![ws] =
                   <<UpdateMessage(board, next, checkWinner(board)),
                     AssignMessage(Assigned)>>]
    /\ ev' = Event("connection", ws)
    /\ firstSent' = FirstSentAfter(sent')
    /\ UNCHANGED <<board, next, throwing, crashed>>
\* the current state is sent to the new socket, after its assign
OnConnectionSnapshot(ws) ==
    /\ ~crashed
    /\ ws \notin clients
    /\ clients' = clients \cup {ws}
    /\ playerAssignments' = MapSet(ws, Assigned)
    /\ sent' = [NoSends EXCEPT ![ws] =
                   <<AssignMessage(Assigned),
                     UpdateMessage(board, next, checkWinner(board))>>]
    /\ ev' = Event("connection", ws)
    /\ firstSent' = FirstSentAfter(sent')
    /\ UNCHANGED <<board, next, throwing, crashed>>

\* webSocketServer.on('connection', ...): a new socket ws has been accepted.
OnConnection(ws) ==
    /\ ~crashed
    /\ ws \notin clients
    /\ clients' = clients \cup {ws}
    /\ IF ws \notin DOMAIN playerAssignments
       THEN /\ playerAssignments' = MapSet(ws, Assigned)
            /\ sent' = [NoSends EXCEPT ![ws] = <<AssignMessage(Assigned)>>]
       ELSE /\ UNCHANGED playerAssignments
            /\ sent' = NoSends
    /\ ev' = Event("connection", ws)
    /\ firstSent' = FirstSentAfter(sent')
    /\ UNCHANGED <<board, next, throwing, crashed>>

\* A return before anything is written or sent.
Ignored ==
    /\ sent' = NoSends
    /\ UNCHANGED <<board, next, crashed>>

\* A TypeError leaves the listener before anything is written or sent.
Thrown ==
    /\ sent' = NoSends
    /\ crashed' = TRUE
    /\ UNCHANGED <<board, next>>

\* Variant of Played: the update is built before next is changed.
PlayedBeforeFlip(b, winner, n) ==
    /\ board' = b
    /\ next' = n
    /\ sent' = broadcast(UpdateMessage(b, next, winner))
    /\ crashed' = broadcastThrows

\* The write, the turn and the broadcast of a move that passed the tests.
Played(b, winner, n) ==
    /\ board' = b
    /\ next' = n
    /\ sent' = broadcast(UpdateMessage(b, n, winner))
    /\ crashed' = broadcastThrows

\* Variants of Move with a slip in them.
\* the occupied-cell test is missing
MoveOverwrites(ws, player, m) ==
    IF player # next THEN Ignored
    ELSE IF m.y \notin DOMAIN board THEN Thrown
    ELSE LET b == Place(board, m.x, m.y, player)
         IN  Played(b, checkWinner(b), Flip(next))
\* checkWinner() is called before the mark is written
MoveWinnerFirst(ws, player, m) ==
    IF player # next THEN Ignored
    ELSE IF m.y \notin DOMAIN board THEN Thrown
    ELSE IF CellAt(board, m.x, m.y) # null THEN Ignored
    ELSE LET winner == checkWinner(board)
             b == Place(board, m.x, m.y, player)
         IN  Played(b, winner, Flip(next))
\* moves are refused once the game is over
MoveUntilGameOver(ws, player, m) ==
    IF player # next THEN Ignored
    ELSE IF m.y \notin DOMAIN board THEN Thrown
    ELSE IF CellAt(board, m.x, m.y) # null \/ checkWinner(board) # null THEN Ignored
    ELSE LET b == Place(board, m.x, m.y, player)
         IN  Played(b, checkWinner(b), Flip(next))
\* if (board[move.y][move.x]) return: the cell is tested for truthiness
MoveTruthyTest(ws, player, m) ==
    IF player # next THEN Ignored
    ELSE IF m.y \notin DOMAIN board THEN Thrown
    ELSE IF CellAt(board, m.x, m.y) \notin {null, undefined} THEN Ignored
    ELSE LET b == Place(board, m.x, m.y, player)
         IN  Played(b, checkWinner(b), Flip(next))

\* case 'move'.  board[move.y] is undefined for a y the board has no row
\* for, and reading [move.x] of it throws a TypeError; undefined !== null
\* holds for an x the row has no cell for.
Move(ws, player, m) ==
    IF player # next THEN Ignored
    ELSE IF m.y \notin DOMAIN board THEN Thrown
    ELSE IF CellAt(board, m.x, m.y) # null THEN Ignored
    ELSE LET b == Place(board, m.x, m.y, player)
             winner == checkWinner(b)
             n == Flip(next)
         IN  Played(b, winner, n)

\* Variant of ClearBoard: the outer loop stops one row early (y < 2).
ClearBoardTwoRows(b) ==
    [y \in Position |-> IF y < 2 THEN [x \in Position |-> null] ELSE b[y]]

\* for (y...) for (x...) board[y][x] = null
ClearBoard(b) == [y \in Position |-> [x \in Position |-> null]]

\* Variant of Reset: next is left as it is.
ResetKeepsTurn ==
    LET b == ClearBoard(board)
    IN  /\ board' = b
        /\ UNCHANGED next
        /\ sent' = broadcast(UpdateMessage(b, next, null))
        /\ crashed' = broadcastThrows

\* case 'reset'
Reset ==
    LET b == ClearBoard(board)
        n == "X"
    IN  /\ board' = b
        /\ next' = n
        /\ sent' = broadcast(UpdateMessage(b, n, null))
        /\ crashed' = broadcastThrows

\* Variant of Dispatch: a default case that resets.
DispatchDefaultResets(ws, player, m) ==
    CASE m.type = "move" -> Move(ws, player, m)
      [] OTHER -> Reset

\* switch (message.type)
Dispatch(ws, player, m) ==
    CASE m.type = "move" -> Move(ws, player, m)
      [] m.type = "reset" -> Reset
      [] OTHER -> Ignored

\* Variant of OnMessage: the `if (!player) return` is missing.
OnMessageNoGuard(ws, m) ==
    /\ ~crashed
    /\ ws \in clients
    /\ Dispatch(ws, Get(ws), m)
    /\ ev' = Event(m.type, ws)
    /\ firstSent' = FirstSentAfter(sent')
    /\ UNCHANGED <<playerAssignments, clients, throwing>>

\* webSocket.on('message', ...)
OnMessage(ws, m) ==
    /\ ~crashed
    /\ ws \in clients
    /\ LET player == Get(ws)
       IN  IF player \notin Player
           THEN Ignored
           ELSE Dispatch(ws, player, m)
    /\ ev' = Event(m.type, ws)
    /\ firstSent' = FirstSentAfter(sent')
    /\ UNCHANGED <<playerAssignments, clients, throwing>>

\* Variants of OnClose with a slip in them.
\* the turn is handed over when the role that is to move leaves
OnCloseHandsTurnOver(ws) ==
    /\ ~crashed
    /\ ws \in clients
    /\ clients' = clients \ {ws}
    /\ playerAssignments' = MapDelete(ws)
    /\ next' = IF Get(ws) = next THEN Flip(next) ELSE next
    /\ sent' = NoSends
    /\ ev' = Event("close", ws)
    /\ firstSent' = [firstSent EXCEPT ![ws] = "none"]
    /\ throwing' = throwing \ {ws}
    /\ UNCHANGED <<board, crashed>>
\* a spectator, if there is one, takes over the role that leaves
OnClosePromotes(ws) ==
    /\ ~crashed
    /\ ws \in clients
    /\ clients' = clients \ {ws}
    /\ LET left == MapDelete(ws)
           spectators == {s \in DOMAIN left : left[s] = null}
       IN  playerAssignments' =
              IF Get(ws) \in Player /\ spectators # {}
              THEN [left EXCEPT ![CHOOSE s \in spectators : TRUE] = Get(ws)]
              ELSE left
    /\ sent' = NoSends
    /\ ev' = Event("close", ws)
    /\ firstSent' = [firstSent EXCEPT ![ws] = "none"]
    /\ throwing' = throwing \ {ws}
    /\ UNCHANGED <<board, next, crashed>>

\* webSocket.on('close', ...), after ws has left webSocketServer.clients.
OnClose(ws) ==
    /\ ~crashed
    /\ ws \in clients
    /\ clients' = clients \ {ws}
    /\ playerAssignments' = MapDelete(ws)
    /\ sent' = NoSends
    /\ ev' = Event("close", ws)
    /\ firstSent' = [firstSent EXCEPT ![ws] = "none"]
    /\ throwing' = throwing \ {ws}
    /\ UNCHANGED <<board, next, crashed>>

\* The transport of a live socket breaks: from now on its send() throws.
\* Its 'close' event has not been emitted yet.
SocketBreaks(ws) ==
    /\ ~crashed
    /\ ws \in clients \ throwing
    /\ throwing' = throwing \cup {ws}
    /\ sent' = NoSends
    /\ ev' = Event("break", ws)
    /\ UNCHANGED <<board, next, playerAssignments, clients, firstSent, crashed>>

\* ---------------------------------------------------------------- clients
\* The client of a socket that has been sent no update: it shows the state
\* it started with, not one the server sent.
NoView == [type |-> "none"]

\* The clients are not followed: view and since stay as they are.
ClientsUnwatched == UNCHANGED <<view, since>>

\* The clients' side of a server step.  Each client's onmessage handler
\* stores the board, next and winner of every update it is sent, so view
\* holds the last one; the client of a socket that is not connected after
\* the step holds nothing.  since restarts from all live sockets when the
\* step wrote the board for a move or ran the reset case, and loses the
\* socket that closes.
ClientsFollow ==
    /\ view' = [s \in Sockets |->
                  LET ups == {i \in DOMAIN sent'[s] : sent'[s][i].type = "update"}
                  IN  IF s \notin clients' THEN NoView
                      ELSE IF ups = {} THEN view[s]
                      ELSE sent'[s][CHOOSE i \in ups : \A j \in ups : j <= i]]
    /\ since' = IF \/ ev'.type = "move" /\ board' # board
                   \/ ev'.type = "reset" /\ Get(ev'.ws) \in Player
                THEN clients'
                ELSE since \cap clients'

Init ==
    /\ board = EmptyBoard
    /\ next = "X"
    /\ playerAssignments = << >>
    /\ clients = {}
    /\ sent = NoSends
    /\ ev = Event("start", 0)
    /\ firstSent = [s \in Sockets |-> "none"]
    /\ throwing = {}
    /\ crashed = FALSE
    /\ view = [s \in Sockets |-> NoView]
    /\ since = {}

\* Any socket may connect, send and disconnect at any time.  Moves stop once
\* the board carries MaxMarks marks, which keeps this state space small.
Connect == \E ws \in Sockets : OnConnection(ws) /\ ClientsUnwatched
Message ==
    \E ws \in Sockets : \E m \in ClientMessages :
        /\ m.type = "move" => Marks(board) < MaxMarks
        /\ OnMessage(ws, m)
        /\ ClientsUnwatched
Close == \E ws \in Sockets : OnClose(ws) /\ ClientsUnwatched

Next == Connect \/ Message \/ Close

Spec == Init /\ [][Next]_vars

\* The same handlers with the sockets connecting in the order 1, 2, 3, ... and
\* disconnecting in the reverse order; moves are not capped, so every board
\* the game can produce is reached.
ConnectInOrder ==
    \E ws \in Sockets :
        ws = Cardinality(clients) + 1 /\ OnConnection(ws) /\ ClientsUnwatched
MessageAny ==
    \E ws \in Sockets : \E m \in ClientMessages :
        OnMessage(ws, m) /\ ClientsUnwatched
CloseInOrder ==
    \E ws \in Sockets :
        ws = Cardinality(clients) /\ OnClose(ws) /\ ClientsUnwatched

NextGame == ConnectInOrder \/ MessageAny \/ CloseInOrder

SpecGame == Init /\ [][NextGame]_vars

\* Sockets connecting in order as in SpecGame, with moves (capped as in Spec)
\* whose coordinates may lie off the board.
MessageWild ==
    \E ws \in Sockets : \E m \in WildMessages :
        /\ m.type = "move" => Marks(board) < MaxMarks
        /\ OnMessage(ws, m)
        /\ ClientsUnwatched

NextWild == ConnectInOrder \/ MessageWild \/ CloseInOrder

SpecWild == Init /\ [][NextWild]_vars

\* Sockets connecting in order as in SpecGame, with moves capped as in Spec,
\* and sockets whose transport breaks while they are still registered.
Break == \E ws \in Sockets : SocketBreaks(ws) /\ ClientsUnwatched

NextSend == ConnectInOrder \/ Message \/ CloseInOrder \/ Break

SpecSend == Init /\ [][NextSend]_vars

\* The handlers of SpecGame, each followed by the clients.
ConnectWatched ==
    \E ws \in Sockets :
        ws = Cardinality(clients) + 1 /\ OnConnection(ws) /\ ClientsFollow
MessageWatched ==
    \E ws \in Sockets : \E m \in ClientMessages :
        OnMessage(ws, m) /\ ClientsFollow
CloseWatched ==
    \E ws \in Sockets :
        ws = Cardinality(clients) /\ OnClose(ws) /\ ClientsFollow

NextView == ConnectWatched \/ MessageWatched \/ CloseWatched

SpecView == Init /\ [][NextView]_vars

\* ================================================================== claims

\* The live sessions holding assignment p.
Holders(p) == {s \in clients : Get(s) = p}

\* The socket of the last event is live and was assigned p.
LastGot(p) == ev.ws \in clients /\ Get(ev.ws) = p

\* C1: in every reachable state at most one live session holds X and at
\* most one holds O.
RolesUnique == \A p \in Player : Cardinality(Holders(p)) <= 1

\* A connection has just taken O while X is held and a spectator is present.
RolesUniqueWitness ==
    /\ ev.type = "connection" /\ LastGot("O")
    /\ Holders("X") # {} /\ Holders(null) # {}

\* C2: a connection handler leaves the new socket with X if no other live
\* session holds X, otherwise O if no other holds O, otherwise spectator; the
\* only socket of the registry therefore gets X, and the assign message sent
\* carries the same role.
ConnectAssignsFirstFree ==
    ev.type = "connection" =>
        LET ws == ev.ws
            held(p) == \E s \in clients \ {ws} : Get(s) = p
            role == IF ~held("X") THEN "X" ELSE IF ~held("O") THEN "O" ELSE null
        IN  /\ ws \in clients
            /\ Get(ws) = role
            /\ clients = {ws} => Get(ws) = "X"
            /\ sent[ws] = <<AssignMessage(role)>>

\* A connection has just been made a spectator.
ConnectAssignsWitness ==
    /\ ev.type = "connection" /\ LastGot(null)
    /\ Holders("X") # {} /\ Holders("O") # {}

\* C3: the close of the session holding a role leaves that role unheld, and
\* a connection arriving while X is unheld is assigned X (while X is held
\* and O unheld: O), whoever else is connected and whatever the board and
\* the turn are.
FreedRoleReassigned ==
    [][ /\ \A p \in Player :
              (ev'.type = "close" /\ ev'.ws \in Holders(p)) => Holders(p)' = {}
        /\ (ev'.type = "connection" /\ Holders("X") = {})
              => (ev'.ws \in Holders("X")' /\ ev'.ws \notin clients)
        /\ (ev'.type = "connection" /\ Holders("X") # {} /\ Holders("O") = {})
              => (ev'.ws \in Holders("O")' /\ ev'.ws \notin clients)
      ]_vars

\* A connection has just taken X while O and a spectator are connected, on a
\* board that carries a mark and with O to move.
FreedRoleWitness ==
    /\ ev.type = "connection" /\ LastGot("X")
    /\ Holders("O") # {} /\ Holders(null) # {}
    /\ board # EmptyBoard /\ next = "O"

\* ------------------------------------------------------ claims on the game

\* The last handler ran for a move and wrote the board.
AcceptedMove == ev'.type = "move" /\ board' # board
\* The last handler ran for a move and left the board alone.
RejectedMove == ev'.type = "move" /\ board' = board
\* The last handler ran for a reset sent by a session holding a role.
ProcessedReset == ev'.type = "reset" /\ ev'.ws \in clients /\ Get(ev'.ws) \in Player

\* The update every live session got from the last handler, if it sent one.
LastUpdate == sent[ev.ws][1]
UpdateSent == ev.ws \in clients /\ sent[ev.ws] # << >>

\* C4: Turn is X at startup; an accepted move changes it to the other role,
\* a rejected move leaves it as it is, and nothing but an accepted move or a
\* reset changes it.
TurnAlternates ==
    /\ next = "X"
    /\ [][ /\ AcceptedMove => (next' \in Player /\ next' # next)
           /\ RejectedMove => next' = next
           /\ next' # next => (AcceptedMove \/ ev'.type = "reset")
         ]_vars

\* O has just made the second accepted move of a game: Turn is X again.
TurnAlternatesWitness ==
    /\ ev.type = "move" /\ LastGot("O") /\ UpdateSent
    /\ Marks(board) = 2 /\ next = "X"

\* The move (x, y) of ws breaks a rule of the game in the current state.
ViolatesRule(ws, x, y) ==
    \/ Get(ws) \notin Player
    \/ Get(ws) # next
    \/ board[y][x] # null

\* C5: a move by a spectator, by the role whose turn it is not, or onto a
\* cell that is not empty changes neither Board nor Turn and sends nothing
\* to anyone: a step that does change or send something is the step of
\* no move that breaks a rule.  (A step of OnMessage(ws, m) sets ev to m.type
\* and ws, so only the steps of a move and their sender are looked at.)
RuleViolationIgnored ==
    [][ ev'.type = "move" =>
          \/ (board' = board /\ next' = next /\ sent' = NoSends)
          \/ \A ws \in {ev'.ws} : \A x \in Position : \A y \in Position :
                ~(ViolatesRule(ws, x, y) /\ OnMessage(ws, MoveMessage(x, y)))
      ]_vars

\* The role whose turn it is has just moved and nothing was sent: the cell
\* was taken.
RuleViolationWitness ==
    /\ ev.type = "move" /\ LastGot(next) /\ sent = NoSends
    /\ board # EmptyBoard

\* What a reset that is carried out leaves behind.
ResetEffect ==
    /\ board' = EmptyBoard
    /\ next' = "X"
    /\ \A s \in Sockets :
          sent'[s] = IF s \in clients THEN <<UpdateMessage(EmptyBoard, "X", null)>>
                     ELSE << >>

\* C6 as stated: a reset from any live session, a spectator included, clears
\* the Board, sets Turn = X and Outcome = in-progress and is broadcast.
ResetFromAnySession == [][ev'.type = "reset" => ResetEffect]_vars

\* C6, amended: a reset from a session holding X or O does all that, whoever
\* is to move; a reset from a spectator changes nothing and sends nothing.
ResetFromPlayersOnly ==
    [][ /\ ProcessedReset => ResetEffect
        /\ (ev'.type = "reset" /\ ~ProcessedReset)
              => (board' = board /\ next' = next /\ sent' = NoSends)
      ]_vars

\* A spectator has just sent a reset on a board that carries marks, and the
\* marks are still there.
ResetFromPlayersWitness ==
    /\ ev.type = "reset" /\ LastGot(null)
    /\ board # EmptyBoard /\ sent = NoSends

\* The game part of Init.
GameInit == board = EmptyBoard /\ next = "X"

\* C7: a reset that is carried out leaves the game state equal to the
\* initial one (an empty Board, Turn = X, an Outcome of in-progress, also in
\* the update) and leaves the registry as it was.
ResetRoundTrip ==
    [][ ProcessedReset =>
           /\ GameInit' /\ isFull(board') = FALSE
           /\ \A i \in 1..8 : ~LineWon(Lines(board')[i])
           /\ UpdateSent' /\ LastUpdate'.winner = null
           /\ LastUpdate'.board = EmptyBoard /\ LastUpdate'.next = "X"
           /\ UNCHANGED <<playerAssignments, clients>>
      ]_vars

\* O has just reset the game with a spectator connected: the board is empty
\* and X is to move.
ResetRoundTripWitness ==
    /\ ev.type = "reset" /\ LastGot("O") /\ UpdateSent
    /\ GameInit /\ Holders(null) # {}

\* C8: after an accepted move or a reset that is carried out, every live
\* session (X, O and the spectators) has been sent exactly one update, the
\* same for all, carrying the new Board and Turn; nobody else is sent
\* anything.
BroadcastComplete ==
    [][ (AcceptedMove \/ ProcessedReset) =>
           \E w \in Player \cup {"draw", null} :
               \A s \in Sockets :
                   sent'[s] = IF s \in clients'
                              THEN <<UpdateMessage(board', next', w)>>
                              ELSE << >>
      ]_vars

\* A move has just been broadcast with every socket connected, so to both
\* players and to a spectator.
BroadcastCompleteWitness ==
    /\ ev.type = "move" /\ clients = Sockets /\ Holders(null) # {}
    /\ \A s \in Sockets : Len(sent[s]) = 1

\* The eight triples as <<y, x>> cells, in the order the claim gives: rows
\* top to bottom, columns left to right, main diagonal, anti-diagonal.
Triples ==
    << << <<0, 0>>, <<0, 1>>, <<0, 2>> >>,
       << <<1, 0>>, <<1, 1>>, <<1, 2>> >>,
       << <<2, 0>>, <<2, 1>>, <<2, 2>> >>,
       << <<0, 0>>, <<1, 0>>, <<2, 0>> >>,
       << <<0, 1>>, <<1, 1>>, <<2, 1>> >>,
       << <<0, 2>>, <<1, 2>>, <<2, 2>> >>,
       << <<0, 0>>, <<1, 1>>, <<2, 2>> >>,
       << <<0, 2>>, <<1, 1>>, <<2, 0>> >> >>

At(b, c) == b[c[1]][c[2]]

\* Triple t of b holds three equal marks.
Complete(b, t) ==
    /\ At(b, t[1]) # null
    /\ At(b, t[1]) = At(b, t[2])
    /\ At(b, t[2]) = At(b, t[3])

\* The Outcome the claim gives for b: the mark of the first complete triple,
\* else draw on a board without an empty cell, else in-progress (null).
Outcome(b) ==
    LET done == {i \in 1..8 : Complete(b, Triples[i])}
    IN  IF done # {}
        THEN At(b, Triples[CHOOSE i \in done : \A j \in done : i <= j][1])
        ELSE IF \A y \in Position : \A x \in Position : b[y][x] # null
        THEN "draw"
        ELSE null

\* The board after X(0,0), O(1,0), X(0,1), O(1,1), X(0,2), moves being (x, y).
ColumnZeroBoard ==
    [y \in Position |-> [x \in Position |->
        IF x = 0 THEN "X" ELSE IF x = 1 /\ y \in {0, 1} THEN "O" ELSE null]]

\* C9: the winner computed for an accepted move is the Outcome of the new
\* board: the mark of the first complete triple in the stated order, a full
\* board with a complete triple being a win and not a draw; after the moves
\* X(0,0), O(1,0), X(0,1), O(1,1), X(0,2) the winner is X.
WinnerIsOutcome ==
    (ev.type = "move" /\ UpdateSent) =>
        /\ LastUpdate.winner = Outcome(board)
        /\ (isFull(board) /\ \E i \in 1..8 : Complete(board, Triples[i]))
              => LastUpdate.winner \in Player
        /\ board = ColumnZeroBoard => LastUpdate.winner = "X"

\* X has just completed column 0 with its third mark and the update names X
\* the winner.
WinnerIsOutcomeWitness ==
    /\ ev.type = "move" /\ LastGot("X") /\ UpdateSent
    /\ board = ColumnZeroBoard /\ LastUpdate.winner = "X"

\* C10: the winner field of every update sent, after a move or after a
\* reset, is what checkWinner gives for the board in that same update.
WinnerFromBoardAlone ==
    \A s \in Sockets : \A i \in 1..Len(sent[s]) :
        sent[s][i].type = "update" =>
            sent[s][i].winner = checkWinner(sent[s][i].board)

\* The update of a move that filled the board without completing a line
\* says draw.
WinnerFromBoardWitness ==
    /\ ev.type = "move" /\ UpdateSent
    /\ LastUpdate.winner = "draw" /\ LastUpdate.board = board

\* ------------------------------------------- claims on what the server sends

\* C11: a connection handler sends the new socket, and nobody else, one
\* assign message carrying the role it was given, and the first message any
\* connection is sent is its assign: every live socket has been sent it, and
\* no socket was sent an update first.
AssignComesFirst ==
    /\ \A s \in Sockets :
          /\ s \in clients => firstSent[s] = "assign"
          /\ firstSent[s] # "update"
    /\ ev.type = "connection" =>
          sent = [NoSends EXCEPT ![ev.ws] = <<AssignMessage(Get(ev.ws))>>]

\* A spectator that was sent its assign earlier has now been sent the update
\* of a move.
AssignComesFirstWitness ==
    /\ ev.type = "move"
    /\ \E s \in Holders(null) :
          /\ firstSent[s] = "assign"
          /\ sent[s] # << >> /\ sent[s][1].type = "update"

\* C12: a close handler removes the mapping of the closing socket and
\* nothing else: the other mappings, Board and Turn are as before, also
\* when the closing socket holds the role that is to move, and nothing is
\* sent to anyone.
CloseTouchesRegistryOnly ==
    [][ ev'.type = "close" =>
          /\ ev'.ws \in DOMAIN playerAssignments
          /\ DOMAIN playerAssignments' = DOMAIN playerAssignments \ {ev'.ws}
          /\ \A s \in DOMAIN playerAssignments' :
                playerAssignments'[s] = playerAssignments[s]
          /\ clients' = clients \ {ev'.ws}
          /\ board' = board /\ next' = next
          /\ sent' = NoSends
      ]_vars

\* With every socket connected both roles are held; one socket has now
\* closed and the role that is to move is held by nobody: it left with the
\* turn, on a board that carries a mark.
CloseTouchesRegistryWitness ==
    /\ ev.type = "close" /\ clients = Sockets \ {ev.ws}
    /\ Holders(next) = {} /\ Holders(null) # {}
    /\ board # EmptyBoard

\* C13: a message whose type is neither move nor reset changes nothing,
\* whoever sends it: Board, Turn and the registry are as before and nothing
\* is sent, to the sender or to anyone else.
UnknownTypeIgnored ==
    [][ ev'.type = OtherMessage.type =>
          /\ board' = board /\ next' = next
          /\ playerAssignments' = playerAssignments /\ clients' = clients
          /\ sent' = NoSends
      ]_vars

\* The role that is to move has just sent such a message on a board that
\* carries marks.
UnknownTypeWitness ==
    /\ ev.type = OtherMessage.type /\ LastGot(next)
    /\ board # EmptyBoard /\ sent = NoSends

\* C14: when the send to one connection fails during the broadcast of an
\* accepted move or of a reset, every other live session is still sent the
\* update.
SendFailureIsolated ==
    [][ ((AcceptedMove \/ ProcessedReset) /\ ev'.ws \notin throwing) =>
           \A s \in clients \ throwing :
               /\ Len(sent'[s]) = 1
               /\ sent'[s][1].type = "update"
               /\ sent'[s][1].board = board' /\ sent'[s][1].next = next'
      ]_vars

\* ------------------------------------------------ claims on the board

\* The roles with a complete triple on b.
LineOwners(b) ==
    {p \in Player : \E i \in 1..8 : Complete(b, Triples[i]) /\ At(b, Triples[i][1]) = p}

\* C15: on every board reached by accepted moves and resets at most one role
\* has a complete triple (so that the order of the triples cannot matter to
\* the Outcome).
OneRoleHasLine == Cardinality(LineOwners(board)) <= 1

\* C16: on a board that checkWinner gives to a role, a move of the session
\* holding the current Turn onto an empty cell is carried out like any
\* other: the cell is written, Turn goes to the other role and every live
\* session is sent the update.
MoveAfterWinAccepted ==
    [][ (ev'.type = "move" /\ Get(ev'.ws) = next /\ checkWinner(board) \in Player) =>
          \A x \in Position : \A y \in Position :
             (board[y][x] = null /\ OnMessage(ev'.ws, MoveMessage(x, y))) =>
                /\ board' = [board EXCEPT ![y][x] = next]
                /\ next' \in Player \ {next}
                /\ \A s \in clients :
                      /\ Len(sent'[s]) = 1
                      /\ sent'[s][1].type = "update"
                      /\ sent'[s][1].board = board'
      ]_vars

\* O's move has just been carried out on a board on which X has a complete
\* line: X had won before O moved.
MoveAfterWinWitness ==
    /\ ev.type = "move" /\ LastGot("O") /\ UpdateSent
    /\ "X" \in LineOwners(board)

\* C17: in every reachable state the board has exactly the rows 0..2, each
\* row exactly the cells 0..2, and each cell is null, "X" or "O", whatever
\* move messages arrive, those with x or y outside 0..2 included.
BoardStaysThreeByThree ==
    /\ DOMAIN board = Position
    /\ \A y \in Position :
          /\ DOMAIN board[y] = Position
          /\ \A x \in Position : board[y][x] \in Cell

\* The role in turn has sent a move on the empty board and the server went
\* on without writing or sending anything: with no cell occupied and no
\* exception, the move's x was outside 0..2.
BoardStaysWitness ==
    /\ ev.type = "move" /\ Get(ev.ws) = next
    /\ board = EmptyBoard /\ sent = NoSends /\ ~crashed

Count(b, p) == Cardinality({c \in Position \X Position : b[c[1]][c[2]] = p})

\* C18: in every reachable state the board holds as many X as O, or one X
\* more, and next is "X" exactly when the two counts are equal, whatever
\* connections and closes happened in between.
PieceCount ==
    /\ Count(board, "X") - Count(board, "O") \in {0, 1}
    /\ next = "X" <=> Count(board, "X") = Count(board, "O")

\* A player has just left a game in which X has one mark more than O and O
\* is to move.
PieceCountWitness ==
    /\ ev.type = "close"
    /\ Count(board, "X") = 2 /\ Count(board, "O") = 1
    /\ next = "O"

\* C19: a socket that is connected before and after a step has the same
\* assignment after it as before: no connection, message or close of any
\* socket changes the role of a socket that stays connected.
AssignmentFixed ==
    [][ \A s \in clients \cap clients' :
           /\ s \in DOMAIN playerAssignments'
           /\ playerAssignments'[s] = playerAssignments[s]
      ]_vars

\* X's socket has just closed while a spectator is connected: the spectator
\* is still a spectator and X is vacant.
AssignmentFixedWitness ==
    /\ ev.type = "close"
    /\ Holders("X") = {}
    /\ Holders(null) # {}

\* The types of the messages that out holds for socket s.
SentTypes(out, s) == {out[s][i].type : i \in DOMAIN out[s]}

\* C20: a step sends an update only if it is an accepted move or a reset of
\* a session holding a role; a connection sends nothing but one assign to
\* the new socket, and a close sends nothing at all.
UpdatesOnlyFromPlay ==
    [][ /\ (\E s \in Sockets : "update" \in SentTypes(sent', s))
            => (AcceptedMove \/ ProcessedReset)
        /\ ev'.type = "connection" =>
              /\ SentTypes(sent', ev'.ws) = {"assign"}
              /\ Len(sent'[ev'.ws]) = 1
              /\ \A s \in Sockets \ {ev'.ws} : sent'[s] = << >>
        /\ ev'.type = "close" => sent' = NoSends
      ]_vars

\* A socket has just connected to a game in progress and got its assign and
\* nothing else.
UpdatesOnlyFromPlayWitness ==
    /\ ev.type = "connection"
    /\ board # EmptyBoard
    /\ sent[ev.ws] = <<AssignMessage(Get(ev.ws))>>

\* C21: every socket that has been connected ever since the last move or
\* reset that was carried out has, as the last update its client was sent,
\* exactly the server's board and next, with winner = checkWinner(board).
ClientViewConsistent ==
    /\ since \subseteq clients
    /\ \A s \in since : view[s] = UpdateMessage(board, next, checkWinner(board))

\* The game has ended in a draw; a socket that watched it end is connected,
\* so is one that joined afterwards, and the last message was a move that
\* the server dropped.
ClientViewWitness ==
    /\ ev.type = "move" /\ sent = NoSends
    /\ since # {}
    /\ clients \ since # {}
    /\ checkWinner(board) = "draw"

====
